---- MODULE Spec2Model ----
(* Model of src/stock_screener.py: the StockScreener object (one stored     *)
(* value self.stocks), its five methods, the JSON conversions they rely on  *)
(* and the __main__ script.                                                  *)
(*                                                                           *)
(* Python values are tagged records [t, v]; JSON text is a sequence of       *)
(* tokens (whitespace, hence the indent, is not a token).  Dividend yields   *)
(* are counted in hundredths: 0.05 is 5.                                     *)
EXTENDS Integers, Sequences, FiniteSets, TLC

VARIABLES
  stocks,   \* self.stocks
  fs,       \* the file system: file name -> [exists, text]
  call,     \* the last call made: [op, a, b]
  ret,      \* what that call returned, or Raised
  err,      \* the exception that call raised, or "none"
  pc,       \* position of the __main__ script ("api" when methods are called freely)
  lastLoaded  \* history: what the last load_stocks that returned normally stored

vars == <<stocks, fs, call, ret, err, pc, lastLoaded>>

---------------------------------------------------------------------------
(* Bounds *)
MaxLen == 2          \* longest array a response body holds
MaxFileLen == 2      \* longest array in the runs that also write files

---------------------------------------------------------------------------
(* Python values *)
None == [t |-> "none", v |-> 0]
PyInt(n) == [t |-> "int", v |-> n]
PyStr(s) == [t |-> "str", v |-> s]
PyList(q) == [t |-> "list", v |-> q]
PyDict(f) == [t |-> "dict", v |-> f]
Raised == [t |-> "raised", v |-> 0]

SeqsUpTo(S, n) == UNION {[1..k -> S] : k \in 0..n}

\* dict.get(key, default)
Get(d, key, default) == IF key \in DOMAIN d.v THEN d.v[key] ELSE default

\* variant: the condition written "is not None"
NotNone(x) == x.t # "none"

\* truth value of an argument used as a condition: None and 0 are false
Truthy(x) == ~(x.t = "none" \/ (x.t = "int" /\ x.v = 0))

---------------------------------------------------------------------------
(* JSON text.  json.dump writes a value as tokens; json.loads / response.json *)
(* reads tokens back or fails.                                                *)
Digits == <<"0", "1", "2", "3", "4", "5", "6", "7", "8", "9">>

RECURSIVE NatToStr(_)
NatToStr(n) == IF n < 10 THEN Digits[n + 1]
               ELSE NatToStr(n \div 10) \o Digits[(n % 10) + 1]

IntToStr(n) == IF n < 0 THEN "-" \o NatToStr(-n) ELSE NatToStr(n)

Quote(s) == "\"" \o s \o "\""

Numbers == -1..20
Strings == {"pe", "sector", "div_yield", "Tech", "tech"}

\* the order in which a record's keys were inserted, hence are written
KeyOrder == <<"pe", "sector", "div_yield">>

RECURSIVE DumpTokens(_), DumpItems(_, _), DumpMembers(_, _, _)
DumpTokens(x) ==
  CASE x.t = "none" -> <<"null">>
    [] x.t = "int"  -> <<IntToStr(x.v)>>
    [] x.t = "str"  -> <<Quote(x.v)>>
    [] x.t = "list" -> <<"[">> \o DumpItems(x.v, 1) \o <<"]">>
    [] x.t = "dict" -> <<"{">> \o DumpMembers(x.v, 1, TRUE) \o <<"}">>

DumpItems(q, i) ==
  IF i > Len(q) THEN <<>>
  ELSE (IF i > 1 THEN <<",">> ELSE <<>>) \o DumpTokens(q[i]) \o DumpItems(q, i + 1)

DumpMembers(f, i, first) ==
  IF i > Len(KeyOrder) THEN <<>>
  ELSE IF KeyOrder[i] \in DOMAIN f
       THEN (IF first THEN <<>> ELSE <<",">>)
            \o <<Quote(KeyOrder[i]), ":">> \o DumpTokens(f[KeyOrder[i]])
            \o DumpMembers(f, i + 1, FALSE)
       ELSE DumpMembers(f, i + 1, first)

\* the number and string literals, by the value each denotes
NumTok == [n \in Numbers |-> IntToStr(n)]
StrTok == [s \in Strings |-> Quote(s)]

IsNumTok(tk) == \E n \in Numbers : NumTok[n] = tk
IsStrTok(tk) == \E s \in Strings : StrTok[s] = tk
NumOf(tk) == CHOOSE n \in Numbers : NumTok[n] = tk
StrOf(tk) == CHOOSE s \in Strings : StrTok[s] = tk

ParseFail == [ok |-> FALSE, val |-> None, next |-> 0]
ParseOk(x, n) == [ok |-> TRUE, val |-> x, next |-> n]

RECURSIVE ParseValue(_, _), ParseItems(_, _, _), ParseMembers(_, _, _)
ParseValue(toks, i) ==
  IF i > Len(toks) THEN ParseFail
  ELSE LET tk == toks[i] IN
    CASE tk = "null"  -> ParseOk(None, i + 1)
      [] IsNumTok(tk) -> ParseOk(PyInt(NumOf(tk)), i + 1)
      [] IsStrTok(tk) -> ParseOk(PyStr(StrOf(tk)), i + 1)
      [] tk = "["     -> IF i + 1 <= Len(toks) /\ toks[i + 1] = "]"
                         THEN ParseOk(PyList(<<>>), i + 2)
                         ELSE ParseItems(toks, i + 1, <<>>)
      [] tk = "{"     -> IF i + 1 <= Len(toks) /\ toks[i + 1] = "}"
                         THEN ParseOk(PyDict(<<>>), i + 2)
                         ELSE ParseMembers(toks, i + 1, <<>>)
      [] OTHER        -> ParseFail

ParseItems(toks, i, acc) ==
  LET item == ParseValue(toks, i) IN
  IF ~item.ok \/ item.next > Len(toks) THEN ParseFail
  ELSE CASE toks[item.next] = "," -> ParseItems(toks, item.next + 1, Append(acc, item.val))
         [] toks[item.next] = "]" -> ParseOk(PyList(Append(acc, item.val)), item.next + 1)
         [] OTHER                 -> ParseFail

ParseMembers(toks, i, acc) ==
  IF i + 2 > Len(toks) \/ ~IsStrTok(toks[i]) \/ toks[i + 1] # ":" THEN ParseFail
  ELSE LET key == StrOf(toks[i])
           item == ParseValue(toks, i + 2)
           more == [k \in DOMAIN acc \cup {key} |-> IF k = key THEN item.val ELSE acc[k]]
       IN IF ~item.ok \/ item.next > Len(toks) THEN ParseFail
          ELSE CASE toks[item.next] = "," -> ParseMembers(toks, item.next + 1, more)
                 [] toks[item.next] = "}" -> ParseOk(PyDict(more), item.next + 1)
                 [] OTHER                 -> ParseFail

\* json.loads: the whole text must be one value
JsonLoads(toks) ==
  LET r == ParseValue(toks, 1) IN
  IF r.ok /\ r.next = Len(toks) + 1 THEN r ELSE ParseFail

---------------------------------------------------------------------------
(* The data the runs draw from *)
Rec(f) == PyDict(f)

Records == {
  Rec([pe |-> PyInt(-1), sector |-> PyStr("Tech"), div_yield |-> PyInt(3)]),
  Rec([pe |-> PyInt(5), sector |-> PyStr("tech"), div_yield |-> PyInt(5)]),
  Rec([sector |-> PyStr("Tech")]),
  Rec([pe |-> PyInt(15)]),
  Rec([pe |-> PyInt(16), div_yield |-> PyInt(10)]) }

\* the records of the runs that also write files
FileRunRecords == {r \in Records : "sector" \in DOMAIN r.v /\ r.v["sector"] = PyStr("Tech")}

StockLists(R, n) == {PyList(q) : q \in SeqsUpTo(R, n)}

\* bodies that are JSON but no array: a number, a single object
OtherJson == {PyInt(7), Rec([pe |-> PyInt(5)])}

\* bodies that are not JSON: empty, an error page, a truncated array
Malformed == {<<>>, <<"<html>">>, <<"[", "{">>}

Bodies(R, n) == {DumpTokens(x) : x \in StockLists(R, n) \cup OtherJson} \cup Malformed

\* what requests.get meets: no connection, or a response with a status and a body
NoConnection == [conn |-> FALSE, status |-> 0, body |-> <<>>]
Responses(R, n) ==
  {NoConnection} \cup [conn : {TRUE}, status : {200, 404}, body : Bodies(R, n)]

ApiResponses == Responses(Records, MaxLen)
FileRunResponses == Responses(FileRunRecords, MaxFileLen)
HandBuilt == StockLists(FileRunRecords, MaxFileLen)

\* response.json() of each body the network may give
Decoded == [b \in Bodies(Records, MaxLen) \cup Bodies(FileRunRecords, MaxFileLen) |-> JsonLoads(b)]
ResponseJson(resp) == Decoded[resp.body]

PeArgs == {None, PyInt(0), PyInt(5), PyInt(15)}
SectorArgs == {PyStr("Tech"), PyStr("tech"), None}
YieldArgs == {PyInt(-1), PyInt(0), PyInt(5)}

FileNames == {"pe_stocks.json", "missing_dir/out.json"}
\* open(filename, "w") succeeds where the directory exists and is writable
Openable(filename) == filename = "pe_stocks.json"

NoFile == [exists |-> FALSE, text |-> <<>>]
File(toks) == [exists |-> TRUE, text |-> toks]

NoCall == [op |-> "none", a |-> None, b |-> None]

---------------------------------------------------------------------------
(* StockScreener *)

\* __init__
Init ==
  /\ stocks = PyList(<<>>)
  /\ lastLoaded = PyList(<<>>)
  /\ fs = [n \in FileNames |-> NoFile]
  /\ call = NoCall
  /\ ret = None
  /\ err = "none"
  /\ pc = "api"

\* the same, with whatever the files held before
InitFiles ==
  /\ stocks = PyList(<<>>)
  /\ lastLoaded = PyList(<<>>)
  /\ fs \in {f \in [FileNames -> {NoFile, File(<<"old">>), File(DumpTokens(PyList(<<Rec([pe |-> PyInt(16)])>>)))}] :
               \A n \in FileNames : ~Openable(n) => f[n] = NoFile}
  /\ call = NoCall
  /\ ret = None
  /\ err = "none"
  /\ pc = "api"

\* len(x) is defined
HasLen(x) == x.t \in {"list", "dict", "str"}

\* variant: the parsed array is added to the stored one
load_stocks_extending(resp) ==
  /\ call' = [op |-> "load_stocks", a |-> resp, b |-> None]
  /\ UNCHANGED fs
  /\ IF ~resp.conn \/ ~ResponseJson(resp).ok
     THEN /\ err' = IF resp.conn THEN "JSONDecodeError" ELSE "ConnectionError"
          /\ ret' = Raised
          /\ UNCHANGED <<stocks, lastLoaded>>
     ELSE LET parsed == ResponseJson(resp) IN
          IF stocks.t = "list" /\ parsed.val.t = "list"
          THEN /\ stocks' = PyList(stocks.v \o parsed.val.v)
               /\ lastLoaded' = stocks'
               /\ err' = "none"
               /\ ret' = None
          ELSE /\ err' = "TypeError"
               /\ ret' = Raised
               /\ UNCHANGED <<stocks, lastLoaded>>

\* variant: the stored list is emptied before the request is made
load_stocks_clearing(resp) ==
  /\ call' = [op |-> "load_stocks", a |-> resp, b |-> None]
  /\ UNCHANGED fs
  /\ IF ~resp.conn \/ ~ResponseJson(resp).ok
     THEN /\ err' = IF resp.conn THEN "JSONDecodeError" ELSE "ConnectionError"
          /\ ret' = Raised
          /\ stocks' = PyList(<<>>)
          /\ UNCHANGED lastLoaded
     ELSE LET parsed == ResponseJson(resp) IN
          /\ stocks' = parsed.val
          /\ IF HasLen(parsed.val)
             THEN err' = "none" /\ ret' = None /\ lastLoaded' = parsed.val
             ELSE err' = "TypeError" /\ ret' = Raised /\ UNCHANGED lastLoaded

\* load_stocks(api_url), resp being what the network gives for api_url
load_stocks(resp) ==
  /\ call' = [op |-> "load_stocks", a |-> resp, b |-> None]
  /\ UNCHANGED fs
  /\ IF ~resp.conn
     THEN /\ err' = "ConnectionError"
          /\ ret' = Raised
          /\ UNCHANGED <<stocks, lastLoaded>>
     ELSE LET parsed == ResponseJson(resp) IN
          IF ~parsed.ok
          THEN /\ err' = "JSONDecodeError"
               /\ ret' = Raised
               /\ UNCHANGED <<stocks, lastLoaded>>
          ELSE /\ stocks' = parsed.val
               /\ IF HasLen(parsed.val)
                  THEN err' = "none" /\ ret' = None /\ lastLoaded' = parsed.val
                  ELSE err' = "TypeError" /\ ret' = Raised /\ UNCHANGED lastLoaded

\* "for s in self.stocks: s.get(...)": the exception it raises, if any
IterError(x) ==
  CASE x.t = "list" -> "none"
    [] x.t = "dict" -> IF DOMAIN x.v = {} THEN "none" ELSE "AttributeError"
    [] OTHER        -> "TypeError"

\* the elements the loop visits without an exception
Elements(x) == IF x.t = "list" THEN x.v ELSE <<>>

\* the loop of filter_by_pe
RECURSIVE PeLoop(_, _, _, _, _)
PeLoop(q, i, filtered, min_pe, max_pe) ==
  IF i > Len(q) THEN filtered
  ELSE LET s == q[i]
           pe == Get(s, "pe", None)
       IN IF pe = None THEN PeLoop(q, i + 1, filtered, min_pe, max_pe)
          ELSE IF Truthy(min_pe) /\ pe.v < min_pe.v
               THEN PeLoop(q, i + 1, filtered, min_pe, max_pe)
          ELSE IF Truthy(max_pe) /\ pe.v > max_pe.v
               THEN PeLoop(q, i + 1, filtered, min_pe, max_pe)
          ELSE PeLoop(q, i + 1, Append(filtered, s), min_pe, max_pe)

\* a filter's outcome: the list it returns, or the exception of the iteration
Returns(filtered) ==
  IF IterError(stocks) = "none"
  THEN err' = "none" /\ ret' = PyList(filtered)
  ELSE err' = IterError(stocks) /\ ret' = Raised

\* variant: the filtered list is also kept as the stored one
filter_by_pe_storing(min_pe, max_pe) ==
  /\ call' = [op |-> "filter_by_pe", a |-> min_pe, b |-> max_pe]
  /\ Returns(PeLoop(Elements(stocks), 1, <<>>, min_pe, max_pe))
  /\ stocks' = IF IterError(stocks) = "none"
               THEN PyList(PeLoop(Elements(stocks), 1, <<>>, min_pe, max_pe))
               ELSE stocks
  /\ UNCHANGED <<fs, lastLoaded>>

filter_by_pe(min_pe, max_pe) ==
  /\ call' = [op |-> "filter_by_pe", a |-> min_pe, b |-> max_pe]
  /\ Returns(PeLoop(Elements(stocks), 1, <<>>, min_pe, max_pe))
  /\ UNCHANGED <<stocks, fs, lastLoaded>>

Lower(x) == IF x = PyStr("Tech") THEN PyStr("tech") ELSE x

\* variant: the comparison ignores case
SectorTestNoCase(s, sector) == Lower(Get(s, "sector", None)) = Lower(sector)

SectorTest(s, sector) == Get(s, "sector", None) = sector

filter_sector(sector) ==
  /\ call' = [op |-> "filter_sector", a |-> sector, b |-> None]
  /\ LET Test(s) == SectorTest(s, sector)
     IN Returns(SelectSeq(Elements(stocks), Test))
  /\ UNCHANGED <<stocks, fs, lastLoaded>>

\* variant: the comparison is strict
YieldTestStrict(s, min_yield) == Get(s, "div_yield", PyInt(0)).v > min_yield.v

YieldTest(s, min_yield) == Get(s, "div_yield", PyInt(0)).v >= min_yield.v

top_dividend_stocks(min_yield) ==
  /\ call' = [op |-> "top_dividend_stocks", a |-> min_yield, b |-> None]
  /\ LET Test(s) == YieldTest(s, min_yield)
     IN Returns(SelectSeq(Elements(stocks), Test))
  /\ UNCHANGED <<stocks, fs, lastLoaded>>

\* variant: the file is opened in append mode
export_appending(given, filename) ==
  /\ call' = [op |-> "export_filtered", a |-> given, b |-> PyStr(filename)]
  /\ UNCHANGED <<stocks, lastLoaded>>
  /\ IF Openable(filename)
     THEN /\ fs' = [fs EXCEPT ![filename] = File(fs[filename].text \o DumpTokens(given))]
          /\ err' = "none"
          /\ ret' = None
     ELSE /\ err' = "OSError"
          /\ ret' = Raised
          /\ UNCHANGED fs

\* export_filtered(stocks, filename); the parameter is named given here, the
\* variable stocks being self.stocks
export_filtered(given, filename) ==
  /\ call' = [op |-> "export_filtered", a |-> given, b |-> PyStr(filename)]
  /\ UNCHANGED <<stocks, lastLoaded>>
  /\ IF Openable(filename)
     THEN /\ fs' = [fs EXCEPT ![filename] = File(DumpTokens(given))]
          /\ err' = "none"
          /\ ret' = None
     ELSE /\ err' = "OSError"
          /\ ret' = Raised
          /\ UNCHANGED fs

---------------------------------------------------------------------------
(* The screener used as a library: any method, any argument *)
Next ==
  /\ pc = "api"
  /\ UNCHANGED pc
  /\ \/ \E resp \in ApiResponses : load_stocks(resp)
     \/ \E min_pe \in PeArgs, max_pe \in PeArgs : filter_by_pe(min_pe, max_pe)
     \/ \E sector \in SectorArgs : filter_sector(sector)
     \/ \E min_yield \in YieldArgs : top_dividend_stocks(min_yield)

Spec == Init /\ [][Next]_vars

\* the lists a caller may hand to export_filtered: what a filter just
\* returned, the stored list, or one built by hand
Exportable ==
  HandBuilt \cup {x \in {ret, stocks} : x.t = "list"}

\* the same with the file system in play, on shorter arrays
NextFiles ==
  /\ pc = "api"
  /\ UNCHANGED pc
  /\ \/ \E resp \in FileRunResponses : load_stocks(resp)
     \/ \E min_pe \in PeArgs, max_pe \in PeArgs : filter_by_pe(min_pe, max_pe)
     \/ \E sector \in SectorArgs : filter_sector(sector)
     \/ \E min_yield \in YieldArgs : top_dividend_stocks(min_yield)
     \/ \E given \in Exportable, filename \in FileNames : export_filtered(given, filename)

SpecFiles == InitFiles /\ [][NextFiles]_vars

---------------------------------------------------------------------------
(* The script under __main__ *)
InitMain ==
  /\ stocks = PyList(<<>>)
  /\ lastLoaded = PyList(<<>>)
  /\ fs \in {f \in [FileNames -> {NoFile, File(<<"old">>)}] :
               \A n \in FileNames : ~Openable(n) => f[n] = NoFile}
  /\ call = NoCall
  /\ ret = None
  /\ err = "none"
  /\ pc = "load"

\* variant: the script goes on whatever the call raised
AfterIgnoringErrors(next) == pc' = next

\* an uncaught exception ends the script
After(next) == pc' = IF err' = "none" THEN next ELSE "aborted"

MainLoad ==
  /\ pc = "load"
  /\ \E resp \in ApiResponses : load_stocks(resp)
  /\ After("filter")

MainFilter ==
  /\ pc = "filter"
  /\ filter_by_pe(PyInt(5), PyInt(15))
  /\ After("export")

\* pe_stocks is what MainFilter returned
MainExport ==
  /\ pc = "export"
  /\ export_filtered(ret, "pe_stocks.json")
  /\ After("done")

NextMain == MainLoad \/ MainFilter \/ MainExport

SpecMain == InitMain /\ [][NextMain]_vars

---------------------------------------------------------------------------
(* Properties *)

Range(q) == {q[i] : i \in DOMAIN q}

\* out holds exactly the elements of S at the indices idx, in S's order
IsSelection(out, S, idx) ==
  /\ Len(out) = Cardinality(idx)
  /\ \A i \in idx : out[Cardinality({j \in idx : j <= i})] = S[i]

HasKey(s, key) == key \in DOMAIN s.v

\* C1: filter_by_pe(min, max) returns, in the stored order, exactly the
\* stored records that have a pe, with pe >= min whenever min is given and
\* pe <= max whenever max is given.
C1_PeWithinGivenBounds ==
  (call.op = "filter_by_pe" /\ stocks.t = "list") =>
    /\ ret.t = "list"
    /\ IsSelection(ret.v, stocks.v,
         {i \in DOMAIN stocks.v :
            /\ HasKey(stocks.v[i], "pe")
            /\ (call.a # None => stocks.v[i].v["pe"].v >= call.a.v)
            /\ (call.b # None => stocks.v[i].v["pe"].v <= call.b.v)})

\* C2: a call of filter_by_pe, filter_sector, top_dividend_stocks or
\* export_filtered leaves self.stocks as it was; only load_stocks changes it.
C2_OnlyLoadChangesStocks ==
  [][call'.op \in {"filter_by_pe", "filter_sector", "top_dividend_stocks", "export_filtered"}
       => stocks' = stocks]_vars

C2_Witness ==
  /\ call.op = "filter_by_pe"
  /\ ret.t = "list"
  /\ stocks.t = "list"
  /\ Len(stocks.v) = 2
  /\ Len(ret.v) = 1

\* C3: load_stocks raises whenever the request cannot be completed, the
\* status is not a success, or the body is not valid JSON.
C3_LoadFailsOnBadResponse ==
  (call.op = "load_stocks"
     /\ (~call.a.conn \/ call.a.status # 200 \/ ~JsonLoads(call.a.body).ok))
    => err # "none"

\* C4: after a load_stocks that returned normally, self.stocks is exactly the
\* value the response body denotes, with nothing of the previous value.
C4_LoadReplaces ==
  (call.op = "load_stocks" /\ err = "none") =>
    /\ JsonLoads(call.a.body).ok
    /\ stocks = JsonLoads(call.a.body).val
    /\ DumpTokens(stocks) = call.a.body

C4_Witness ==
  /\ call.op = "load_stocks"
  /\ err = "none"
  /\ stocks.t = "list"
  /\ Len(stocks.v) = 2
  /\ stocks.v[1] = stocks.v[2]

\* C5: top_dividend_stocks(minYield) returns, in the stored order, exactly
\* the stored records whose div_yield (0 when absent) is >= minYield; a
\* record without div_yield is left out when minYield > 0 and kept when
\* minYield <= 0.
C5_TopDividend ==
  (call.op = "top_dividend_stocks" /\ stocks.t = "list") =>
    /\ ret.t = "list"
    /\ IsSelection(ret.v, stocks.v,
         {i \in DOMAIN stocks.v :
            (IF HasKey(stocks.v[i], "div_yield") THEN stocks.v[i].v["div_yield"].v ELSE 0)
              >= call.a.v})
    /\ \A i \in DOMAIN stocks.v :
         ~HasKey(stocks.v[i], "div_yield") =>
           (stocks.v[i] \in Range(ret.v) <=> call.a.v <= 0)

C5_Witness ==
  /\ call.op = "top_dividend_stocks"
  /\ call.a = PyInt(5)
  /\ stocks.t = "list"
  /\ \E i, j \in DOMAIN stocks.v :
       /\ ~HasKey(stocks.v[i], "div_yield")
       /\ HasKey(stocks.v[j], "div_yield")
       /\ stocks.v[j].v["div_yield"] = PyInt(5)
  /\ ret.t = "list"
  /\ Len(ret.v) = 1

\* C6, as claimed: for every sector argument filter_sector returns exactly
\* the stored records whose sector is present and equal to it, and never a
\* record without a sector.
C6_SectorAnyArgument ==
  (call.op = "filter_sector" /\ stocks.t = "list") =>
    /\ ret.t = "list"
    /\ IsSelection(ret.v, stocks.v,
         {i \in DOMAIN stocks.v :
            HasKey(stocks.v[i], "sector") /\ stocks.v[i].v["sector"] = call.a})
    /\ \A i \in DOMAIN stocks.v :
         ~HasKey(stocks.v[i], "sector") => stocks.v[i] \notin Range(ret.v)

\* C6, amended: for every sector argument other than None filter_sector
\* returns, in the stored order, exactly the stored records whose sector is
\* present and equal to it (case-sensitive), and never a record without a
\* sector; filter_sector(None) returns the records whose sector is absent or
\* null.
C6_Sector ==
  (call.op = "filter_sector" /\ stocks.t = "list") =>
    /\ ret.t = "list"
    /\ call.a # None =>
         /\ IsSelection(ret.v, stocks.v,
              {i \in DOMAIN stocks.v :
                 HasKey(stocks.v[i], "sector") /\ stocks.v[i].v["sector"] = call.a})
         /\ \A i \in DOMAIN stocks.v :
              ~HasKey(stocks.v[i], "sector") => stocks.v[i] \notin Range(ret.v)
    /\ call.a = None =>
         IsSelection(ret.v, stocks.v,
           {i \in DOMAIN stocks.v :
              ~HasKey(stocks.v[i], "sector") \/ stocks.v[i].v["sector"] = None})

C6_Witness ==
  /\ call.op = "filter_sector"
  /\ call.a = PyStr("Tech")
  /\ stocks.t = "list"
  /\ \E i, j \in DOMAIN stocks.v :
       /\ stocks.v[i] \in Range(ret.v)
       /\ HasKey(stocks.v[j], "sector")
       /\ stocks.v[j].v["sector"] = PyStr("tech")

\* C7: a bound of exactly 0 is treated as absent: filter_by_pe(0, m) returns
\* what filter_by_pe(None, m) returns, so records with a negative pe are
\* kept, and filter_by_pe(m, 0) returns what filter_by_pe(m, None) returns,
\* so records with a positive pe are kept.
C7_ZeroBoundIsAbsent ==
  (call.op = "filter_by_pe" /\ stocks.t = "list") =>
    /\ call.a = PyInt(0) =>
         /\ ret = PyList(PeLoop(stocks.v, 1, <<>>, None, call.b))
         /\ \A i \in DOMAIN stocks.v :
              (/\ HasKey(stocks.v[i], "pe")
               /\ stocks.v[i].v["pe"].v < 0
               /\ (call.b \in {None, PyInt(0)} \/ stocks.v[i].v["pe"].v <= call.b.v))
                => stocks.v[i] \in Range(ret.v)
    /\ call.b = PyInt(0) =>
         /\ ret = PyList(PeLoop(stocks.v, 1, <<>>, call.a, None))
         /\ \A i \in DOMAIN stocks.v :
              (/\ HasKey(stocks.v[i], "pe")
               /\ stocks.v[i].v["pe"].v > 0
               /\ (call.a \in {None, PyInt(0)} \/ stocks.v[i].v["pe"].v >= call.a.v))
                => stocks.v[i] \in Range(ret.v)

C7_Witness ==
  /\ call.op = "filter_by_pe"
  /\ call.a = PyInt(0)
  /\ call.b = PyInt(5)
  /\ ret.t = "list"
  /\ \E i \in DOMAIN ret.v : ret.v[i].v["pe"].v < 0

\* C8: after an export_filtered(stocks, filename) that returned normally,
\* reading the file back gives the list passed as argument, whatever the
\* file held before and whatever self.stocks is.
C8_ExportRoundTrip ==
  (call.op = "export_filtered" /\ err = "none") =>
    /\ fs[call.b.v].exists
    /\ JsonLoads(fs[call.b.v].text).ok
    /\ JsonLoads(fs[call.b.v].text).val = call.a

C8_Witness ==
  /\ call.op = "export_filtered"
  /\ err = "none"
  /\ call.a # stocks
  /\ Len(call.a.v) = 2
  /\ stocks.t = "list"
  /\ Len(stocks.v) >= 1

\* C9: the default run calls load_stocks, then filter_by_pe(5, 15), then
\* export_filtered to pe_stocks.json, in that order; nothing runs after a
\* call that raised, so a failed load is followed by no filter and no file
\* is written; when all three succeed the file holds exactly the loaded
\* records with a pe between 5 and 15, in loaded order.
C9_DefaultRun ==
  [][/\ err = "none"
     /\ call'.op \in {"load_stocks", "filter_by_pe", "export_filtered"}
     /\ call'.op = "load_stocks" => call.op = "none"
     /\ call'.op = "filter_by_pe" =>
          call.op = "load_stocks" /\ call'.a = PyInt(5) /\ call'.b = PyInt(15)
     /\ call'.op = "export_filtered" =>
          call.op = "filter_by_pe" /\ call'.b = PyStr("pe_stocks.json")
     /\ fs' # fs => call'.op = "export_filtered"
     /\ (call'.op = "export_filtered" /\ err' = "none") =>
          LET out == JsonLoads(fs'["pe_stocks.json"].text) IN
          /\ pc' = "done"
          /\ stocks' = lastLoaded'
          /\ stocks'.t = "list"
          /\ out.ok
          /\ out.val.t = "list"
          /\ IsSelection(out.val.v, stocks'.v,
               {i \in DOMAIN stocks'.v :
                  /\ HasKey(stocks'.v[i], "pe")
                  /\ stocks'.v[i].v["pe"].v >= 5
                  /\ stocks'.v[i].v["pe"].v <= 15})
    ]_vars

C9_Witness ==
  /\ pc = "done"
  /\ Len(stocks.v) = 2
  /\ fs["pe_stocks.json"].exists
  /\ JsonLoads(fs["pe_stocks.json"].text).val = PyList(<<stocks.v[2]>>)
  /\ stocks.v[1] # stocks.v[2]

\* C10, as claimed: after any sequence of successful and failed loads
\* self.stocks is what the most recent successful load stored, or empty.
C10_StocksIsLastSuccessfulLoad == stocks = lastLoaded

\* C10, amended: a load_stocks that fails in the request or because the body
\* is not valid JSON leaves self.stocks as it was; any other load_stocks,
\* including one that fails afterwards (a decoded body that has no length),
\* has replaced self.stocks by the decoded body.
C10_FailedLoad ==
  [][call'.op = "load_stocks" =>
       IF err' \in {"ConnectionError", "JSONDecodeError"}
       THEN stocks' = stocks
       ELSE stocks' = ResponseJson(call'.a).val]_vars

C10_Witness ==
  /\ call.op = "load_stocks"
  /\ err = "JSONDecodeError"
  /\ stocks.t = "list"
  /\ Len(stocks.v) = 2

====
